---- MODULE Spec2Model ----
(***************************************************************************)
(* Wind compound-risk pipeline: hourly stress metrics (metrics.py), the    *)
(* calendar-day aggregation with streaks (metrics.py) and the daily risk   *)
(* classifier (risk_states.py).                                            *)
(*                                                                         *)
(* Arithmetic.  wind_speed_ms and gust_ms are whole m/s.  EWS, CWL and     *)
(* SHWe are kept in tenths of a m/s (Scale = 10), so that                  *)
(* EWS = wind + 0.3 * (gust - wind) is the exact integer                   *)
(* Scale*wind + 3*(gust - wind).  risk_multiplier is kept in units of      *)
(* 1/800 (MULT_ONE = 800 is 1.0).  Binary floating-point rounding is not   *)
(* modelled.                                                               *)
(*                                                                         *)
(* Timestamps are whole hours since midnight of day 0, UTC.                *)
(***************************************************************************)
EXTENDS Integers, Sequences, FiniteSets, TLC

VARIABLES
    pc,      \* position in run_dataset / in the function under study
    df,      \* the raw hourly table handed to compute_all
    hourly,  \* compute_all's first result: df + EWS, CWL_hour, SHWe_hour
    daily,   \* compute_all's second result: the daily table
    out,     \* compute_risk_states' result
    arg,     \* argument record of the pure function under study
    res      \* its result

vars == <<pc, df, hourly, daily, out, arg, res>>

----------------------------------------------------------------------------
(* Bounds of the model *)

MaxRows == 3          \* rows of a table returned by load()
MaxGapHours == 30     \* hours between one row of such a table and the next
MaxRawDays == 2       \* calendar dates of a table handed over in any order
MaxRawRows == 3       \* rows of a table handed over in any order
MaxLongRows == 5      \* rows of a table of the longer runs of days
MaxStreak == 5        \* compound_streak arguments 0..MaxStreak
MaxSpeedStep == 3     \* wind and gust arguments 0, 10, .. 10*MaxSpeedStep

----------------------------------------------------------------------------
(* Units *)

Scale == 10           \* tenths of a m/s
HOURS_PER_DAY == 24

----------------------------------------------------------------------------
(* metrics.py: constants *)

BASELINE_WIND == 200               \* 20.0 m/s
BASELINE_RECOVERY == 100           \* 10.0 m/s
CWL_HIGH_DAY_THRESHOLD == 500      \* 50.0
SHWe_FAIL_NIGHT_THRESHOLD == 200   \* 20.0

\* the window with its morning end included: range(0, 7)
RECOVERY_HOURS_closed == (0..6) \cup (22..23)

RECOVERY_HOURS == (0..5) \cup (22..23)

----------------------------------------------------------------------------
(* pandas helpers *)

Max2(a, b) == IF a >= b THEN a ELSE b

\* Series.clip(lower=0)
clip_lower0(x) == Max2(x, 0)

\* DatetimeIndex.hour
hour_of(ts) == ts % HOURS_PER_DAY

\* DatetimeIndex.normalize(): the timestamp truncated to midnight UTC
normalize(ts) == ts - (ts % HOURS_PER_DAY)

RECURSIVE SeqSum(_)
SeqSum(s) == IF s = <<>> THEN 0 ELSE s[1] + SeqSum(Tail(s))

RECURSIVE SeqMax(_)
\* max of a non-empty sequence
SeqMax(s) == IF Len(s) = 1 THEN s[1] ELSE Max2(s[1], SeqMax(Tail(s)))

RECURSIVE SortedKeys(_)
\* the elements of a finite set of integers, ascending
SortedKeys(S) ==
    IF S = {} THEN <<>>
    ELSE LET m == CHOOSE x \in S : \A y \in S : x <= y
         IN  <<m>> \o SortedKeys(S \ {m})

\* a running total that leaves out the current element
cumsum_exclusive(s) == [i \in DOMAIN s |-> SeqSum(SubSeq(s, 1, i - 1))]

\* Series.cumsum()
cumsum(s) == [i \in DOMAIN s |-> SeqSum(SubSeq(s, 1, i))]

----------------------------------------------------------------------------
(* metrics.py: hourly metrics *)

compute_ews(wind, gust) == Scale * wind + 3 * (gust - wind)

\* compute_cwl_hour without the clip at zero
compute_cwl_hour_unclipped(ews) == ews - BASELINE_WIND

compute_cwl_hour(ews) == clip_lower0(ews - BASELINE_WIND)

compute_shwe_hour(ews, ts) ==
    LET in_recovery == hour_of(ts) \in RECOVERY_HOURS
        excess == clip_lower0(ews - BASELINE_RECOVERY)
    IN  IF in_recovery THEN excess ELSE 0

----------------------------------------------------------------------------
(* metrics.py: daily aggregation helpers *)

RECURSIVE streak_loop(_, _, _)
\* the for loop of _streak: count carried across the values, one append each
streak_loop(vals, count, streak) ==
    IF vals = <<>> THEN streak
    ELSE LET c == IF Head(vals) THEN count + 1 ELSE 0
         IN  streak_loop(Tail(vals), c, Append(streak, c))

\* _streak whose count is not reset by a False value
streak_no_reset(bool_series) ==
    [i \in DOMAIN bool_series |->
        Cardinality({j \in 1..i : bool_series[j]})]

_streak(bool_series) == streak_loop(bool_series, 0, <<>>)

\* a group key aligned with the night: hours 22-23 go to the next date
date_key_night_aligned(ts) == normalize(ts + 2)

\* hourly.index.normalize(): the group key of a row
date_key(ts) == normalize(ts)

RECURSIVE first_seen(_, _)
\* the distinct values of a sequence, in order of first appearance
first_seen(s, seen) ==
    IF s = <<>> THEN <<>>
    ELSE IF Head(s) \in seen THEN first_seen(Tail(s), seen)
         ELSE <<Head(s)>> \o first_seen(Tail(s), seen \cup {Head(s)})

\* groupby(date_key, sort=False): the group keys in order of appearance
groupby_keys_unsorted(rows) ==
    first_seen([i \in DOMAIN rows |-> normalize(rows[i].timestamp)], {})

\* groupby(date_key): the group keys, ascending (sort=True is the default)
groupby_keys(rows) ==
    SortedKeys({date_key(rows[i].timestamp) : i \in DOMAIN rows})

\* the rows of one group, in table order
group_rows(rows, key) ==
    SelectSeq(rows, LAMBDA r : date_key(r.timestamp) = key)

\* hourly[col].groupby(date_key).sum(), at one key
group_sum(rows, col, key) ==
    LET g == group_rows(rows, key)
    IN  SeqSum([i \in DOMAIN g |-> g[i][col]])

\* hourly.loc[rec_mask, "EWS"].groupby(...).max().reindex(.., fill_value=0.0)
max_ews_recovery(rows, key) ==
    LET ews_recovery ==
            SelectSeq(rows, LAMBDA r : hour_of(r.timestamp) \in RECOVERY_HOURS)
        g == SelectSeq(ews_recovery, LAMBDA r : normalize(r.timestamp) = key)
    IN  IF g = <<>> THEN 0 ELSE SeqMax([i \in DOMAIN g |-> g[i].EWS])

\* no_recovery_day with >= for >
no_recovery_day_inclusive(max_ews) == max_ews >= BASELINE_RECOVERY

no_recovery_day(max_ews) == max_ews > BASELINE_RECOVERY

\* high_wind_day with >= for >
high_wind_day_inclusive(daily_cwl) == daily_cwl >= CWL_HIGH_DAY_THRESHOLD

high_wind_day(daily_cwl) == daily_cwl > CWL_HIGH_DAY_THRESHOLD

failed_recovery_night(daily_shwe) == daily_shwe > SHWe_FAIL_NIGHT_THRESHOLD

\* compound with | for &
compound_either(high_wind, failed_recovery) == high_wind \/ failed_recovery

compound(high_wind, failed_recovery) == high_wind /\ failed_recovery

compute_daily_metrics(rows) ==
    LET keys == groupby_keys(rows)
        daily_cwl == [k \in DOMAIN keys |-> group_sum(rows, "CWL_hour", keys[k])]
        daily_shwe == [k \in DOMAIN keys |-> group_sum(rows, "SHWe_hour", keys[k])]
        no_rec == [k \in DOMAIN keys |->
                      no_recovery_day(max_ews_recovery(rows, keys[k]))]
        high == [k \in DOMAIN keys |-> high_wind_day(daily_cwl[k])]
        failed == [k \in DOMAIN keys |-> failed_recovery_night(daily_shwe[k])]
        comp == [k \in DOMAIN keys |-> compound(high[k], failed[k])]
        cumulative_cwl == cumsum(daily_cwl)
        cumulative_shwe == cumsum(daily_shwe)
        consecutive_no_recovery == _streak(no_rec)
        consecutive_high_wind == _streak(high)
        consecutive_failed_recovery == _streak(failed)
        consecutive_compound == _streak(comp)
    IN  [k \in DOMAIN keys |->
            [date |-> keys[k],
             daily_CWL |-> daily_cwl[k],
             daily_SHWe |-> daily_shwe[k],
             cumulative_CWL |-> cumulative_cwl[k],
             cumulative_SHWe |-> cumulative_shwe[k],
             no_recovery_day |-> no_rec[k],
             high_wind_day |-> high[k],
             failed_recovery_night |-> failed[k],
             compound |-> comp[k],
             consecutive_no_recovery_days |-> consecutive_no_recovery[k],
             consecutive_high_wind_days |-> consecutive_high_wind[k],
             consecutive_failed_recovery_nights |-> consecutive_failed_recovery[k],
             consecutive_compound_cycles |-> consecutive_compound[k]]]

\* compute_all's hourly table: a copy of df with the three derived columns
hourly_metrics(table) ==
    [i \in DOMAIN table |->
        LET ews == compute_ews(table[i].wind_speed_ms, table[i].gust_ms)
        IN  [timestamp |-> table[i].timestamp,
             wind_speed_ms |-> table[i].wind_speed_ms,
             gust_ms |-> table[i].gust_ms,
             EWS |-> ews,
             CWL_hour |-> compute_cwl_hour(ews),
             SHWe_hour |-> compute_shwe_hour(ews, table[i].timestamp)]]

----------------------------------------------------------------------------
(* risk_states.py *)

CWL_STRAIN == 800        \* 80.0
CWL_FAIL == 1600         \* 160.0
SHWE_STRAIN == 400       \* 40.0
SHWE_FAIL == 800         \* 80.0
COMPOUND_STRAIN == 2
COMPOUND_FAIL == 4

MULT_ONE == 800          \* risk_multiplier 1.0, in units of 1/800

STATES == <<"Stable", "Straining", "Failure">>

STATE_NUM(state) ==
    CASE state = "Stable" -> 0
      [] state = "Straining" -> 1
      [] state = "Failure" -> 2

\* classify_risk_state with the Straining gate tested first
classify_straining_first(cwl, shwe, compound_streak) ==
    IF cwl >= CWL_STRAIN \/ shwe >= SHWE_STRAIN
       \/ compound_streak >= COMPOUND_STRAIN
    THEN "Straining"
    ELSE IF cwl >= CWL_FAIL \/ shwe >= SHWE_FAIL
            \/ compound_streak >= COMPOUND_FAIL
         THEN "Failure"
         ELSE "Stable"

classify_risk_state(cwl, shwe, compound_streak) ==
    IF cwl >= CWL_FAIL \/ shwe >= SHWE_FAIL \/ compound_streak >= COMPOUND_FAIL
    THEN "Failure"
    ELSE IF cwl >= CWL_STRAIN \/ shwe >= SHWE_STRAIN
            \/ compound_streak >= COMPOUND_STRAIN
         THEN "Straining"
         ELSE "Stable"

\* risk_multiplier with floor division: cwl // 80.0
risk_multiplier_floor(cwl, shwe, compound_streak) ==
    MULT_ONE + (cwl \div MULT_ONE) * MULT_ONE + 2 * shwe
        + compound_streak * (MULT_ONE \div 2)

\* risk_multiplier with the two divisors exchanged: cwl/40.0 + shwe/80.0
risk_multiplier_swapped(cwl, shwe, compound_streak) ==
    MULT_ONE + 2 * cwl + shwe + compound_streak * (MULT_ONE \div 2)

\* 1.0 + cwl/80.0 + shwe/40.0 + compound_streak*0.5, in units of 1/800 with cwl
\* and shwe in tenths: cwl/80.0 is cwl/800 and shwe/40.0 is 2*shwe/800
risk_multiplier(cwl, shwe, compound_streak) ==
    MULT_ONE + cwl + 2 * shwe + compound_streak * (MULT_ONE \div 2)

compute_risk_states(table) ==
    [i \in DOMAIN table |->
        LET row == table[i]
            state == classify_risk_state(row.daily_CWL, row.daily_SHWe,
                                         row.consecutive_compound_cycles)
        IN  [date |-> row.date,
             daily_CWL |-> row.daily_CWL,
             daily_SHWe |-> row.daily_SHWe,
             cumulative_CWL |-> row.cumulative_CWL,
             cumulative_SHWe |-> row.cumulative_SHWe,
             no_recovery_day |-> row.no_recovery_day,
             high_wind_day |-> row.high_wind_day,
             failed_recovery_night |-> row.failed_recovery_night,
             compound |-> row.compound,
             consecutive_no_recovery_days |-> row.consecutive_no_recovery_days,
             consecutive_high_wind_days |-> row.consecutive_high_wind_days,
             consecutive_failed_recovery_nights |->
                 row.consecutive_failed_recovery_nights,
             consecutive_compound_cycles |-> row.consecutive_compound_cycles,
             risk_state |-> state,
             risk_multiplier |->
                 risk_multiplier(row.daily_CWL, row.daily_SHWe,
                                 row.consecutive_compound_cycles),
             risk_state_num |-> STATE_NUM(state)]]

----------------------------------------------------------------------------
(* The run of one dataset (main.py run_dataset): load, compute_all,          *)
(* compute_risk_states.                                                      *)

\* hours of the day at which the bounded tables hold rows: an early recovery
\* hour, a daytime hour, a late recovery hour
SampleHours == {3, 12, 22}

\* (wind_speed_ms, gust_ms) readings of the bounded tables:
\* EWS 10.0, 30.0, 70.0 and 72.0
Readings == {<<10, 10>>, <<0, 100>>, <<100, 0>>, <<60, 100>>}

NoCall == [fn |-> "none"]

NewRow(ts, rd) == [timestamp |-> ts, wind_speed_ms |-> rd[1], gust_ms |-> rd[2]]

Init ==
    /\ pc = "load"
    /\ df = <<>>
    /\ hourly = <<>>
    /\ daily = <<>>
    /\ out = <<>>
    /\ arg = NoCall
    /\ res = NoCall

\* data_loader.load(): one more row of the CSV, in the order sort_values
\* leaves them; the first row lies on day 1.  Timestamps are distinct here;
\* HandRow below also hands over repeated ones.
LoadRow ==
    /\ pc = "load"
    /\ Len(df) < MaxRows
    /\ \E ts \in HOURS_PER_DAY..(HOURS_PER_DAY * (MaxRows + 1) + MaxGapHours),
          rd \in Readings :
          /\ hour_of(ts) \in SampleHours
          /\ IF df = <<>>
             THEN ts < 2 * HOURS_PER_DAY
             ELSE /\ df[Len(df)].timestamp < ts
                  /\ ts <= df[Len(df)].timestamp + MaxGapHours
          /\ df' = Append(df, NewRow(ts, rd))
    /\ UNCHANGED <<pc, hourly, daily, out, arg, res>>

\* `hourly = df` / `out = daily`: the callee's name bound to the caller's
\* table itself, no copy made
DataFrame_no_copy(frames, src, new) == [frames |-> frames, name |-> src]

\* DataFrame.copy(): `frames` maps the names of the table objects in play to
\* their contents; the copy is a new object `new` with the contents of `src`
DataFrame_copy(frames, src, new) ==
    [frames |-> (new :> frames[src]) @@ frames, name |-> new]

\* compute_all(df) up to its three column assignments, as its caller sees
\* it: the table handed in as it is afterwards, and the table that `hourly`
\* names, to which the assignments go
call_compute_all(table) ==
    LET c == DataFrame_copy([df |-> table], "df", "hourly")
        after == [c.frames EXCEPT ![c.name] = hourly_metrics(c.frames[c.name])]
    IN  [df |-> after["df"], hourly |-> after[c.name]]

\* compute_risk_states(daily) as its caller sees it: the table handed in as
\* it is after the call, and the table returned.  The three column
\* assignments go to the object that `out` names.
call_compute_risk_states(table) ==
    LET c == DataFrame_copy([daily |-> table], "daily", "out")
        after == [c.frames EXCEPT
                     ![c.name] = compute_risk_states(c.frames[c.name])]
    IN  [daily |-> after["daily"], out |-> after[c.name]]

\* metrics.compute_all(df)
ComputeAll ==
    /\ pc = "load"
    /\ LET r == call_compute_all(df)
       IN  /\ df' = r.df
           /\ hourly' = r.hourly
    /\ daily' = compute_daily_metrics(hourly')
    /\ pc' = "computed"
    /\ UNCHANGED <<out, arg, res>>

\* risk_states.compute_risk_states(daily)
ComputeRiskStates ==
    /\ pc = "computed"
    /\ LET r == call_compute_risk_states(daily)
       IN  /\ daily' = r.daily
           /\ out' = r.out
    /\ pc' = "classified"
    /\ UNCHANGED <<df, hourly, arg, res>>

Next == LoadRow \/ ComputeAll \/ ComputeRiskStates

Spec == Init /\ [][Next]_vars

----------------------------------------------------------------------------
(* compute_all and compute_risk_states on a one-row table, for every hour of *)
(* the day and a grid of wind and gust values.                               *)

Speeds == {10 * k : k \in 0..MaxSpeedStep}

InitHourly ==
    /\ pc = "load"
    /\ df \in {<<NewRow(ts, <<w, g>>)>> :
                  ts \in HOURS_PER_DAY..(2 * HOURS_PER_DAY - 1),
                  w \in Speeds, g \in Speeds}
    /\ hourly = <<>>
    /\ daily = <<>>
    /\ out = <<>>
    /\ arg = NoCall
    /\ res = NoCall

NextHourly == ComputeAll \/ ComputeRiskStates

SpecHourly == InitHourly /\ [][NextHourly]_vars

----------------------------------------------------------------------------
(* classify_risk_state and risk_multiplier as functions of one day's         *)
(* (daily_CWL, daily_SHWe, consecutive_compound_cycles).                     *)

CwlGrid == {0, 500, 799, 800, 900, 1599, 1600, 2000}
ShweGrid == {0, 399, 400, 799, 800, 1000}

InitClassify ==
    /\ pc = "call"
    /\ arg \in [fn : {"day"}, cwl : CwlGrid, shwe : ShweGrid,
                compound_streak : 0..MaxStreak]
    /\ res = NoCall
    /\ df = <<>>
    /\ hourly = <<>>
    /\ daily = <<>>
    /\ out = <<>>

ClassifyRiskState ==
    /\ pc = "call"
    /\ res' = [fn |-> "classify_risk_state",
               value |-> classify_risk_state(arg.cwl, arg.shwe,
                                             arg.compound_streak)]
    /\ pc' = "returned"
    /\ UNCHANGED <<df, hourly, daily, out, arg>>

RiskMultiplier ==
    /\ pc = "call"
    /\ res' = [fn |-> "risk_multiplier",
               value |-> risk_multiplier(arg.cwl, arg.shwe,
                                         arg.compound_streak)]
    /\ pc' = "returned"
    /\ UNCHANGED <<df, hourly, daily, out, arg>>

NextClassify == ClassifyRiskState \/ RiskMultiplier

SpecClassify == InitClassify /\ [][NextClassify]_vars

----------------------------------------------------------------------------
(* compute_all and compute_risk_states on a table handed over as it is: in   *)
(* any row order, possibly empty.                                            *)

RawHours == {3, 12}
RawReadings == {<<0, 100>>, <<60, 100>>}

\* the caller appends any row: no order is kept
HandRow ==
    /\ pc = "load"
    /\ Len(df) < MaxRawRows
    /\ \E d \in 1..MaxRawDays, h \in RawHours, rd \in RawReadings :
          df' = Append(df, NewRow(HOURS_PER_DAY * d + h, rd))
    /\ UNCHANGED <<pc, hourly, daily, out, arg, res>>

NextRaw == HandRow \/ ComputeAll \/ ComputeRiskStates

SpecRaw == Init /\ [][NextRaw]_vars

----------------------------------------------------------------------------
(* The run of one dataset over more days: fewer hours and readings, more     *)
(* rows, so that a compound streak can reach the classifier's gates.         *)

DayHours == {3, 12}

\* EWS 70.0 (daily_CWL exactly 50.0 from one row) and 72.0
DayReadings == {<<100, 0>>, <<60, 100>>}

\* data_loader.load(): one more row of the CSV, in sorted order
LoadDayRow ==
    /\ pc = "load"
    /\ Len(df) < MaxLongRows
    /\ \E ts \in HOURS_PER_DAY..(HOURS_PER_DAY * (MaxLongRows + 1) + MaxGapHours),
          rd \in DayReadings :
          /\ hour_of(ts) \in DayHours
          /\ IF df = <<>>
             THEN ts < 2 * HOURS_PER_DAY
             ELSE /\ df[Len(df)].timestamp < ts
                  /\ ts <= df[Len(df)].timestamp + MaxGapHours
          /\ df' = Append(df, NewRow(ts, rd))
    /\ UNCHANGED <<pc, hourly, daily, out, arg, res>>

NextStreak == LoadDayRow \/ ComputeAll \/ ComputeRiskStates

SpecStreak == Init /\ [][NextStreak]_vars

----------------------------------------------------------------------------
(* Properties of the daily table *)

RECURSIVE SumOver(_, _)
\* the sum of f[i] over the finite set S
SumOver(f, S) ==
    IF S = {} THEN 0
    ELSE LET i == CHOOSE x \in S : TRUE
         IN  f[i] + SumOver(f, S \ {i})

Computed == pc \in {"computed", "classified"}

\* the recurrence of a streak column over its flag column
StreakRecurrence(flag, streak) ==
    \A i \in DOMAIN daily :
        daily[i][streak] =
            IF ~daily[i][flag] THEN 0
            ELSE IF i = 1 THEN 1 ELSE 1 + daily[i - 1][streak]

Column(col) == [i \in DOMAIN daily |-> daily[i][col]]

\* C1: in the daily table each of the four streak columns is 0 where its flag
\* is false and 1 + the previous row's streak (1 on the first row) where it
\* is true; _streak returns as many values as it is given, and
\* [true, true, false] gives [1, 2, 0].
C1_StreakProperty ==
    Computed =>
        /\ StreakRecurrence("no_recovery_day", "consecutive_no_recovery_days")
        /\ StreakRecurrence("high_wind_day", "consecutive_high_wind_days")
        /\ StreakRecurrence("failed_recovery_night",
                            "consecutive_failed_recovery_nights")
        /\ StreakRecurrence("compound", "consecutive_compound_cycles")
        /\ Len(_streak(Column("compound"))) = Len(daily)
        /\ Len(_streak(Column("no_recovery_day"))) = Len(daily)
        /\ Column("compound") = <<TRUE, TRUE, FALSE>>
              => Column("consecutive_compound_cycles") = <<1, 2, 0>>

\* three days with compound = [true, true, false]
C1_Witness ==
    /\ pc = "computed"
    /\ Column("compound") = <<TRUE, TRUE, FALSE>>
    /\ Column("consecutive_compound_cycles") = <<1, 2, 0>>

\* C4: every row returned by compute_risk_states has risk_multiplier =
\* 1.0 + daily_CWL/80 + daily_SHWe/40 + 0.5 * consecutive_compound_cycles of
\* that same row (800 + CWL + 2*SHWe + 400*streak in units of 1/800), which
\* is at least 1.0; CWL 90, SHWe 0, streak 0 gives 2.125.
C4_MultiplierFormula ==
    /\ risk_multiplier(900, 0, 0) * 1000 = 2125 * 800
    /\ pc = "classified" =>
          /\ Len(out) = Len(daily)
          /\ \A i \in DOMAIN out :
                /\ out[i].daily_CWL = daily[i].daily_CWL
                /\ out[i].daily_SHWe = daily[i].daily_SHWe
                /\ out[i].consecutive_compound_cycles =
                       daily[i].consecutive_compound_cycles
                /\ out[i].risk_multiplier =
                       800 + out[i].daily_CWL + 2 * out[i].daily_SHWe
                           + 400 * out[i].consecutive_compound_cycles
                /\ out[i].risk_multiplier >= 800

\* a classified day with wind load, night excess and a running compound streak
C4_Witness ==
    /\ pc = "classified"
    /\ \E i \in DOMAIN out :
          /\ out[i].daily_CWL = 520
          /\ out[i].daily_SHWe = 620
          /\ out[i].consecutive_compound_cycles = 2
          /\ out[i].risk_multiplier = 3360

\* C5: cumulative_CWL and cumulative_SHWe are the running sums of daily_CWL
\* and daily_SHWe over the day and all earlier days: they never decrease, and
\* on the last day they equal the totals over all days.
C5_CumulativeSums ==
    Computed =>
        /\ \A i \in DOMAIN daily :
              /\ daily[i].cumulative_CWL =
                     SumOver(Column("daily_CWL"), 1..i)
              /\ daily[i].cumulative_SHWe =
                     SumOver(Column("daily_SHWe"), 1..i)
              /\ i > 1 =>
                    /\ daily[i].cumulative_CWL >= daily[i - 1].cumulative_CWL
                    /\ daily[i].cumulative_SHWe >= daily[i - 1].cumulative_SHWe
        /\ daily # <<>> =>
              daily[Len(daily)].cumulative_CWL =
                  SumOver(Column("daily_CWL"), DOMAIN daily)

\* three days, each adding to both running totals
C5_Witness ==
    /\ pc = "computed"
    /\ Len(daily) = 3
    /\ \A i \in DOMAIN daily : daily[i].daily_CWL > 0 /\ daily[i].daily_SHWe > 0
    /\ daily[3].cumulative_CWL > daily[2].cumulative_CWL
    /\ daily[2].cumulative_SHWe > daily[1].cumulative_SHWe

\* the rows of the hourly table on the calendar date that starts at `date`
RowsOfDate(date) ==
    {i \in DOMAIN hourly :
        date <= hourly[i].timestamp /\ hourly[i].timestamp < date + 24}

InWindow(ts) == (ts % 24) \in {0, 1, 2, 3, 4, 5, 22, 23}

\* C7: no_recovery_day of a date is true iff some row of that date in the
\* recovery window has EWS > 10.0 (the maximum over them exceeds 10.0); a
\* date with rows but none in the window gets false.
C7_NoRecoveryDay ==
    Computed =>
        \A k \in DOMAIN daily :
            /\ daily[k].no_recovery_day =
                  (\E i \in RowsOfDate(daily[k].date) :
                      InWindow(hourly[i].timestamp) /\ hourly[i].EWS > 100)
            /\ (\A i \in RowsOfDate(daily[k].date) :
                   ~InWindow(hourly[i].timestamp))
                  => ~daily[k].no_recovery_day

\* one date with a windy row outside the window only (flag false), and one
\* date whose window row exceeds the baseline (flag true)
C7_Witness ==
    /\ pc = "computed"
    /\ \E k \in DOMAIN daily :
          /\ RowsOfDate(daily[k].date) # {}
          /\ \A i \in RowsOfDate(daily[k].date) :
                ~InWindow(hourly[i].timestamp) /\ hourly[i].EWS > 100
          /\ ~daily[k].no_recovery_day
    /\ \E k \in DOMAIN daily : daily[k].no_recovery_day

\* C8: high_wind_day iff daily_CWL > 50.0, failed_recovery_night iff
\* daily_SHWe > 20.0, compound iff both; a day with daily_CWL exactly 50.0 or
\* daily_SHWe exactly 20.0 is not compound.
C8_CompoundFlags ==
    Computed =>
        \A k \in DOMAIN daily :
            /\ daily[k].high_wind_day = (daily[k].daily_CWL > 500)
            /\ daily[k].failed_recovery_night = (daily[k].daily_SHWe > 200)
            /\ daily[k].compound =
                  (daily[k].high_wind_day /\ daily[k].failed_recovery_night)
            /\ (daily[k].daily_CWL = 500 \/ daily[k].daily_SHWe = 200)
                  => ~daily[k].compound

\* a day at exactly 50.0 with a failed night and a day at exactly 20.0 with
\* high wind
C8_Witness ==
    /\ pc = "computed"
    /\ \E k \in DOMAIN daily :
          /\ daily[k].daily_CWL = 500
          /\ daily[k].daily_SHWe > 200
          /\ ~daily[k].compound
    /\ \E k \in DOMAIN daily :
          /\ daily[k].daily_CWL > 500
          /\ daily[k].daily_SHWe = 200
          /\ ~daily[k].compound

\* rows i (hour 22-23) and j (hour 00-05 of the next date) of one night
OneNight(i, j) ==
    /\ (hourly[i].timestamp % 24) \in {22, 23}
    /\ (hourly[j].timestamp % 24) \in {0, 1, 2, 3, 4, 5}
    /\ hourly[i].timestamp < hourly[j].timestamp
    /\ hourly[j].timestamp - hourly[i].timestamp <= 7

\* C10: daily_SHWe of a date is the sum of SHWe_hour over the rows whose own
\* timestamp lies on that date, the table has one row for each date that has
\* rows, and the two halves of one night (hours 22-23 of D, hours 00-05 of
\* D+1) lie in two different dates' rows.
C10_CalendarDateAttribution ==
    Computed =>
        /\ \A k \in DOMAIN daily :
              /\ daily[k].date % 24 = 0
              /\ RowsOfDate(daily[k].date) # {}
              /\ daily[k].daily_SHWe =
                    SumOver([i \in DOMAIN hourly |-> hourly[i].SHWe_hour],
                            RowsOfDate(daily[k].date))
              /\ daily[k].daily_CWL =
                    SumOver([i \in DOMAIN hourly |-> hourly[i].CWL_hour],
                            RowsOfDate(daily[k].date))
        /\ \A i \in DOMAIN hourly :
              \E k \in DOMAIN daily : i \in RowsOfDate(daily[k].date)
        /\ \A k1, k2 \in DOMAIN daily :
              k1 < k2 => daily[k1].date < daily[k2].date
        /\ \A i, j \in DOMAIN hourly :
              OneNight(i, j) =>
                 \E k \in DOMAIN daily :
                    /\ k + 1 \in DOMAIN daily
                    /\ i \in RowsOfDate(daily[k].date)
                    /\ j \in RowsOfDate(daily[k + 1].date)

\* one windy night, split: 22:00 of day 1 and 03:00 of day 2 each make their
\* own date a no-recovery day with its own daily_SHWe
C10_Witness ==
    /\ pc = "computed"
    /\ Len(hourly) = 2
    /\ OneNight(1, 2)
    /\ Len(daily) = 2
    /\ daily[1].daily_SHWe = hourly[1].SHWe_hour
    /\ daily[2].daily_SHWe = hourly[2].SHWe_hour
    /\ daily[1].daily_SHWe > 0 /\ daily[2].daily_SHWe > 0
    /\ daily[1].no_recovery_day /\ daily[2].no_recovery_day

----------------------------------------------------------------------------
(* Properties of the hourly metrics (SpecHourly) *)

\* C6: SHWe_hour is 0 when the row's hour of day is outside
\* {0,1,2,3,4,5,22,23}, whatever EWS is, and max(0, EWS - 10.0) inside it;
\* wind 20 and gust 20 at a window hour give EWS 20, SHWe_hour 10, CWL_hour 0.
C6_ShweWindow ==
    Computed =>
        \A i \in DOMAIN hourly :
            LET h == hourly[i].timestamp % 24
                ews == hourly[i].EWS
            IN  /\ h \notin {0, 1, 2, 3, 4, 5, 22, 23}
                      => hourly[i].SHWe_hour = 0
                /\ h \in {0, 1, 2, 3, 4, 5, 22, 23}
                      => hourly[i].SHWe_hour =
                             (IF ews > 100 THEN ews - 100 ELSE 0)
                /\ (/\ h \in {0, 1, 2, 3, 4, 5, 22, 23}
                    /\ hourly[i].wind_speed_ms = 20
                    /\ hourly[i].gust_ms = 20)
                      => /\ ews = 200
                         /\ hourly[i].SHWe_hour = 100
                         /\ hourly[i].CWL_hour = 0

\* wind 20, gust 20 at 23:00
C6_Witness ==
    /\ pc = "computed"
    /\ hourly[1].timestamp % 24 = 23
    /\ hourly[1].wind_speed_ms = 20 /\ hourly[1].gust_ms = 20
    /\ hourly[1].SHWe_hour = 100

----------------------------------------------------------------------------
(* Properties of the classifier (SpecClassify) *)

FailureGate(cwl, shwe, k) == cwl >= 1600 \/ shwe >= 800 \/ k >= 4
StrainingGate(cwl, shwe, k) == cwl >= 800 \/ shwe >= 400 \/ k >= 2

Returned(fn) == pc = "returned" /\ res.fn = fn

\* C2: classify_risk_state returns Failure exactly when CWL >= 160 or
\* SHWe >= 80 or streak >= 4, otherwise Straining exactly when CWL >= 80 or
\* SHWe >= 40 or streak >= 2, otherwise Stable; when both gates hold the
\* state is Failure.
C2_ClassifierGates ==
    Returned("classify_risk_state") =>
        LET f == FailureGate(arg.cwl, arg.shwe, arg.compound_streak)
            s == StrainingGate(arg.cwl, arg.shwe, arg.compound_streak)
        IN  /\ (res.value = "Failure") = f
            /\ (res.value = "Straining") = (~f /\ s)
            /\ (res.value = "Stable") = (~f /\ ~s)
            /\ (f /\ s) => res.value = "Failure"

\* CWL 0, SHWe 0, streak 4: both gates hold through the streak alone
C2_Witness ==
    /\ Returned("classify_risk_state")
    /\ arg.cwl = 0 /\ arg.shwe = 0 /\ arg.compound_streak = 4
    /\ res.value = "Failure"

Rank(state) ==
    CASE state = "Stable" -> 0
      [] state = "Straining" -> 1
      [] state = "Failure" -> 2

----------------------------------------------------------------------------
(* Properties of the core on a table in any order (SpecRaw) *)

SortedByTimestamp(table) ==
    \A i, j \in DOMAIN table : i < j => table[i].timestamp <= table[j].timestamp

\* C9 as claimed: an empty or unsorted table makes the core fail, so that no
\* daily table is produced from one.
C9_FailsFast ==
    Computed => (df # <<>> /\ SortedByTimestamp(df))

\* C9 as the code has it: compute_all and compute_risk_states raise nothing.
\* An empty table gives an empty daily table; rows in any order give one
\* daily row for each date that has rows, in ascending date order, with each
\* date's sums taken over that date's rows wherever they stand.
C9_NoValidation ==
    Computed =>
        /\ df = <<>> => (daily = <<>> /\ out = <<>>)
        /\ Len(hourly) = Len(df)
        /\ \A k1, k2 \in DOMAIN daily :
              k1 < k2 => daily[k1].date < daily[k2].date
        /\ {daily[k].date : k \in DOMAIN daily} =
              {df[i].timestamp - (df[i].timestamp % 24) : i \in DOMAIN df}
        /\ \A k \in DOMAIN daily :
              /\ daily[k].daily_CWL =
                    SumOver([i \in DOMAIN hourly |-> hourly[i].CWL_hour],
                            RowsOfDate(daily[k].date))
              /\ daily[k].daily_SHWe =
                    SumOver([i \in DOMAIN hourly |-> hourly[i].SHWe_hour],
                            RowsOfDate(daily[k].date))
        /\ pc = "classified" =>
              /\ Len(out) = Len(daily)
              /\ \A k \in DOMAIN out : out[k].date = daily[k].date

\* a table whose rows go day 2, day 1, day 2: classified, two daily rows
C9_Witness ==
    /\ pc = "classified"
    /\ Len(df) = 3
    /\ df[2].timestamp < df[1].timestamp
    /\ df[2].timestamp < df[3].timestamp
    /\ Len(out) = 2
    /\ out[1].date < out[2].date

----------------------------------------------------------------------------
(* Non-negativity of the hourly metrics (SpecHourly) *)

\* C11: for every row and any non-negative wind_speed and gust, also when
\* gust < wind_speed (then EWS < wind_speed), CWL_hour >= 0 and
\* SHWe_hour >= 0, and compute_all goes through: it is enabled on every
\* loaded table and returns one hourly row for each row handed in.
C11_NonNegativeHourly ==
    /\ pc = "load" => ENABLED ComputeAll
    /\ Computed =>
          /\ Len(hourly) = Len(df)
          /\ \A i \in DOMAIN hourly :
                /\ hourly[i].wind_speed_ms >= 0 /\ hourly[i].gust_ms >= 0
                /\ hourly[i].CWL_hour >= 0
                /\ hourly[i].SHWe_hour >= 0
                /\ hourly[i].gust_ms < hourly[i].wind_speed_ms
                      => hourly[i].EWS < 10 * hourly[i].wind_speed_ms

\* gust below wind speed with EWS under both baselines, at a window hour:
\* both contributions are clipped to 0
C11_Witness ==
    /\ pc = "computed"
    /\ hourly[1].timestamp % 24 = 3
    /\ hourly[1].gust_ms < hourly[1].wind_speed_ms
    /\ hourly[1].EWS < 100
    /\ hourly[1].CWL_hour = 0
    /\ hourly[1].SHWe_hour = 0

----------------------------------------------------------------------------
(* Frame of the two stages (Spec) *)

RawColumns == {"timestamp", "wind_speed_ms", "gust_ms"}
HourlyColumns == {"EWS", "CWL_hour", "SHWe_hour"}
RiskColumns == {"risk_state", "risk_multiplier", "risk_state_num"}

----------------------------------------------------------------------------
(* The compound streak against the other streaks (SpecStreak) *)

\* C13: on every day consecutive_compound_cycles is at most
\* consecutive_high_wind_days and at most consecutive_failed_recovery_nights
\* (so it is positive only when both are) and at most the day's 1-based
\* position in the table; hence a day before the 2nd is not Straining, and a
\* day before the 4th is not Failure, through the streak gate.
C13_CompoundStreakBound ==
    /\ Computed =>
          \A i \in DOMAIN daily :
              /\ daily[i].consecutive_compound_cycles
                    <= daily[i].consecutive_high_wind_days
              /\ daily[i].consecutive_compound_cycles
                    <= daily[i].consecutive_failed_recovery_nights
              /\ daily[i].consecutive_compound_cycles > 0
                    => /\ daily[i].consecutive_high_wind_days > 0
                       /\ daily[i].consecutive_failed_recovery_nights > 0
              /\ daily[i].consecutive_compound_cycles <= i
    /\ pc = "classified" =>
          \A i \in DOMAIN out :
              /\ (i < 2 /\ out[i].risk_state # "Stable")
                    => (out[i].daily_CWL >= 800 \/ out[i].daily_SHWe >= 400)
              /\ (i < 4 /\ out[i].risk_state = "Failure")
                    => (out[i].daily_CWL >= 1600 \/ out[i].daily_SHWe >= 800)

\* four compound days in a row after a longer run of high wind: the 4th day
\* is Failure through the streak gate alone, and the compound streak is
\* shorter than the high-wind streak
C13_Witness ==
    /\ pc = "classified"
    /\ \E i \in DOMAIN out :
          /\ out[i].consecutive_compound_cycles = 4
          /\ out[i].consecutive_high_wind_days = 5
          /\ out[i].risk_state = "Failure"
          /\ out[i].daily_CWL < 1600
          /\ out[i].daily_SHWe < 800

====
